---- MODULE Spec2Model ----
(***************************************************************************)
(* A model of the parser-combinator engine, the expression / program       *)
(* grammar built from it, and the tree-walking evaluator.                   *)
(*                                                                         *)
(* Text is a sequence of one-character strings.  A Parser of the Go code   *)
(* (a closure) is a term here: the combinator that built it together with  *)
(* its arguments; Run applies a term to an input exactly as the closure    *)
(* body does.  A grammar rule that the Go code writes as a function        *)
(* (Sum, Unit, ...) is referred to by name (Rule) so that the grammar may   *)
(* be recursive.                                                           *)
(***************************************************************************)
EXTENDS Integers, Sequences, FiniteSets, TLC

VARIABLES
    input,      \* the text handed to the entry point
    base,       \* the text the input was made from, by appending trailing
                \* text or by typing whitespace into it
    parser,     \* the entry point applied to the text (a parser term)
    pc,         \* where main is: "start", "exec", "eval", "applied", "done", "failed", "panic"
    node,       \* the AST returned by the entry point
    rest,       \* the remainder returned by the entry point
    ok,         \* the success flag returned by the entry point
    memory,     \* Exec's Memory: Variables (an address in heap) and Functions
    heap,       \* the variable maps that exist, by address
    line,       \* index of the next line Exec handles
    output      \* what Exec / main printed so far, as line results

vars == <<input, base, parser, pc, node, rest, ok, memory, heap, line, output>>

(***************************************************************************)
(* Characters                                                              *)
(***************************************************************************)
DigitChars == {"0", "1", "2", "3", "4", "5", "6", "7", "8", "9"}

LetterChars ==
    {"a", "b", "c", "d", "e", "f", "g", "h", "i", "j", "k", "l", "m",
     "n", "o", "p", "q", "r", "s", "t", "u", "v", "w", "x", "y", "z",
     "A", "B", "C", "D", "E", "F", "G", "H", "I", "J", "K", "L", "M",
     "N", "O", "P", "Q", "R", "S", "T", "U", "V", "W", "X", "Y", "Z"}

\* the class \s of Go's regexp syntax
SpaceChars == {" ", "\t", "\n", "\f", "\r"}

Suffix(s, from) == SubSeq(s, from, Len(s))

(***************************************************************************)
(* Nodes and parser outcomes                                               *)
(***************************************************************************)
Char == "Char"
Whitespace == "Whitespace"

\* the nil *Node
Nil == [Type |-> "nil", Children |-> <<>>, Value |-> <<>>]

\* &Node{Type: t, Value: v}
Leaf(type, value) == [Type |-> type, Children |-> <<>>, Value |-> value]

\* &Node{Type: t} with children appended
Inner(type, children) == [Type |-> type, Children |-> children, Value |-> <<>>]

Outcome(n, r, o) == [node |-> n, rest |-> r, ok |-> o]

\* return nil, "", false
Failure == Outcome(Nil, <<>>, FALSE)

(***************************************************************************)
(* Regular expressions: FindStringIndex for the patterns of the grammar.   *)
(* MatchEnd(regex, s, i) is the end (exclusive, 0-based) of the match of   *)
(* regex that begins at offset i of s, or -1 when none begins there; all   *)
(* the patterns are greedy runs, so the first match is the longest one.    *)
(***************************************************************************)
RECURSIVE RunLength(_, _, _)
RunLength(class, s, i) ==
    IF i + 1 <= Len(s) /\ s[i + 1] \in class
    THEN 1 + RunLength(class, s, i + 1)
    ELSE 0

MatchEnd(regex, s, i) ==
    CASE regex = "-?[0-9]+" ->
            LET j == IF i + 1 <= Len(s) /\ s[i + 1] = "-" THEN i + 1 ELSE i
                n == RunLength(DigitChars, s, j)
            IN  IF n > 0 THEN j + n ELSE -1
      [] regex = "[a-zA-Z][a-zA-Z0-9]*" ->
            IF i + 1 <= Len(s) /\ s[i + 1] \in LetterChars
            THEN i + 1 + RunLength(LetterChars \cup DigitChars, s, i + 1)
            ELSE -1
      [] regex = ",?" ->
            IF i + 1 <= Len(s) /\ s[i + 1] = "," THEN i + 1 ELSE i
      [] regex = " *" -> i + RunLength({" "}, s, i)
      [] regex = "[\\n;]*" -> i + RunLength({"\n", ";"}, s, i)
      [] regex = "\\s*" -> i + RunLength(SpaceChars, s, i)

RECURSIVE FindFrom(_, _, _)
FindFrom(regex, s, i) ==
    IF i > Len(s) THEN <<>>
    ELSE LET e == MatchEnd(regex, s, i)
         IN IF e >= 0 THEN <<i, e>> ELSE FindFrom(regex, s, i + 1)

\* regex.FindStringIndex(input): the leftmost match, <<>> for nil
FindStringIndex(regex, s) == FindFrom(regex, s, 0)

(***************************************************************************)
(* Parser terms: what each combinator of the Go code is applied to         *)
(***************************************************************************)
Character(chr) == [kind |-> "Character", chr |-> chr]
Regex(outType, regex) == [kind |-> "Regex", outType |-> outType, regex |-> regex]
Some(outType, p) == [kind |-> "Some", outType |-> outType, parser |-> p]
AtLeast(outType, minimum, p) ==
    [kind |-> "AtLeast", outType |-> outType, minimum |-> minimum, parser |-> p]
Or(parsers) == [kind |-> "Or", parsers |-> parsers]
Then(outType, parsers) == [kind |-> "Then", outType |-> outType, parsers |-> parsers]
ThenSkipping(outType, skip, parsers) ==
    [kind |-> "ThenSkipping", outType |-> outType, skip |-> skip, parsers |-> parsers]
Skipping(skip, p) == [kind |-> "Skipping", skip |-> skip, parser |-> p]
As(outType, p) == [kind |-> "As", outType |-> outType, parser |-> p]
\* a call of a grammar function
Rule(name) == [kind |-> "Rule", name |-> name]

(***************************************************************************)
(* The grammar of the program language: each rule is the body of the Go    *)
(* function or variable of that name.                                      *)
(***************************************************************************)
Number == Regex("Number", "-?[0-9]+")
Variable == Regex("Variable", "[a-zA-Z][a-zA-Z0-9]*")
ArguementDelimeter == Regex("ArgumentDelimeter", ",?")
WS == Regex(Whitespace, " *")
LineDelim == Regex(Whitespace, "[\\n;]*")

\* Program with a Line that needs no declaration and no expression
ProgramOfDelimiters ==
    Some("Lines", ThenSkipping("Line", WS, <<LineDelim>>))

Program ==
    Some("Lines",
        ThenSkipping("Line", WS,
            <<Or(<<Rule("Declaration"), Rule("Expression")>>),
              LineDelim>>))

Declaration ==
    Or(<<Rule("VariableDeclaration"), Rule("FunctionDeclaration")>>)

VariableDeclaration ==
    ThenSkipping("VariableDeclaration", WS,
        <<Variable, Character("="), Rule("Expression")>>)

FunctionDeclaration ==
    ThenSkipping("FunctionDeclaration", WS,
        <<Variable,
          Character("("),
          Some("Parameters",
              ThenSkipping("Parameter", WS, <<Variable, ArguementDelimeter>>)),
          Character(")"),
          Character("="),
          Rule("Expression")>>)

Expression == As("Expression", Rule("Sum"))

Sum ==
    Or(<<ThenSkipping("Sum", WS,
            <<Rule("Multiplication"),
              AtLeast("Terms", 1,
                  ThenSkipping("Term", WS,
                      <<Or(<<As("OpAdd", Character("+")),
                             As("OpMinus", Character("-"))>>),
                        Rule("Multiplication")>>))>>),
         Skipping(WS, Rule("Multiplication"))>>)

Multiplication ==
    Or(<<ThenSkipping("Multiplication", WS,
            <<Rule("Unit"),
              AtLeast("Terms", 1,
                  ThenSkipping("Term", WS,
                      <<Or(<<As("OpMult", Character("*")),
                             As("OpDiv", Character("/"))>>),
                        Rule("Unit")>>))>>),
         Skipping(WS, Rule("Unit"))>>)

Unit ==
    Or(<<ThenSkipping("Unit", WS,
            <<Character("("), Rule("Expression"), Character(")")>>),
         Skipping(WS, Rule("FunctionCall")),
         Skipping(WS, Variable),
         Skipping(WS, Number)>>)

FunctionCall ==
    ThenSkipping("FunctionCall", WS,
        <<Variable,
          Character("("),
          Some("Arguments",
              ThenSkipping("Argument", WS,
                  <<Rule("Expression"), ArguementDelimeter>>)),
          Character(")")>>)

(***************************************************************************)
(* The expression-only grammar (main.go): no names, and WS is \s*.         *)
(***************************************************************************)
MainWS == Regex(Whitespace, "\\s*")

MainExpression == As("Expression", Rule("MainSum"))

\* MainSum without its second alternative
MainSumOnly ==
    ThenSkipping("Sum", MainWS,
        <<Rule("MainMultiplication"),
          AtLeast("Terms", 1,
              ThenSkipping("Term", MainWS,
                  <<Or(<<As("OpAdd", Character("+")),
                         As("OpMinus", Character("-"))>>),
                    Rule("MainMultiplication")>>))>>)

MainSum ==
    Or(<<ThenSkipping("Sum", MainWS,
            <<Rule("MainMultiplication"),
              AtLeast("Terms", 1,
                  ThenSkipping("Term", MainWS,
                      <<Or(<<As("OpAdd", Character("+")),
                             As("OpMinus", Character("-"))>>),
                        Rule("MainMultiplication")>>))>>),
         Skipping(MainWS, Rule("MainMultiplication"))>>)

MainMultiplication ==
    Or(<<ThenSkipping("Multiplication", MainWS,
            <<Rule("MainUnit"),
              AtLeast("Terms", 1,
                  ThenSkipping("Term", MainWS,
                      <<Or(<<As("OpMult", Character("*")),
                             As("OpDiv", Character("/"))>>),
                        Rule("MainUnit")>>))>>),
         Skipping(MainWS, Rule("MainUnit"))>>)

MainUnit ==
    Or(<<ThenSkipping("Unit", MainWS,
            <<Character("("), Rule("MainExpression"), Character(")")>>),
         Skipping(MainWS, Number)>>)

\* the body of the grammar function called name
RuleBody(name) ==
    CASE name = "Declaration" -> Declaration
      [] name = "VariableDeclaration" -> VariableDeclaration
      [] name = "FunctionDeclaration" -> FunctionDeclaration
      [] name = "Expression" -> Expression
      [] name = "Sum" -> Sum
      [] name = "Multiplication" -> Multiplication
      [] name = "Unit" -> Unit
      [] name = "FunctionCall" -> FunctionCall
      [] name = "MainExpression" -> MainExpression
      [] name = "MainSum" -> MainSum
      [] name = "MainMultiplication" -> MainMultiplication
      [] name = "MainUnit" -> MainUnit

(***************************************************************************)
(* The closures the combinators return, applied to an input.  A grammar    *)
(* function is a pure function of the text it is given, and every text it  *)
(* is given is a suffix of the text being parsed: calls holds, for each    *)
(* suffix (by its length), the outcome of each grammar function on it, and *)
(* a call of a grammar function reads its outcome there.                   *)
(***************************************************************************)
RECURSIVE Run(_, _, _)
RECURSIVE SomeLoop(_, _, _, _)
RECURSIVE AtLeastLoop(_, _, _, _, _)
RECURSIVE OrLoop(_, _, _, _)
RECURSIVE ThenLoop(_, _, _, _, _)
RECURSIVE ThenSkippingLoop(_, _, _, _, _)

CharacterFn(p, in) ==
    IF Len(in) > 0 /\ in[1] = p.chr
    THEN Outcome(Leaf(Char, SubSeq(in, 1, 1)), Suffix(in, 2), TRUE)
    ELSE Failure

RegexFn(p, in) ==
    LET indexes == FindStringIndex(p.regex, in)
    IN  IF indexes = <<>> \/ indexes[1] # 0
        THEN Failure
        ELSE Outcome(Leaf(p.outType, SubSeq(in, indexes[1] + 1, indexes[2])),
                     Suffix(in, indexes[2] + 1), TRUE)

\* one turn of Some's for loop
SomeLoop(p, n, r, calls) ==
    LET res == Run(p.parser, r, calls)
    IN  IF ~res.ok
        THEN Outcome(n, r, TRUE)
        ELSE SomeLoop(p, [n EXCEPT !.Children = Append(@, res.node)],
                      res.rest, calls)

SomeFn(p, in, calls) == SomeLoop(p, Inner(p.outType, <<>>), in, calls)

\* AtLeastLoop returning what the failed application returned as rest
RECURSIVE AtLeastLoopFailedRest(_, _, _, _, _)
AtLeastLoopFailedRest(p, num, n, r, calls) ==
    LET res == Run(p.parser, r, calls)
    IN  IF ~res.ok
        THEN IF num >= p.minimum THEN Outcome(n, res.rest, TRUE) ELSE Failure
        ELSE AtLeastLoopFailedRest(p, num + 1,
                         [n EXCEPT !.Children = Append(@, res.node)],
                         res.rest, calls)

\* one turn of AtLeast's for loop
AtLeastLoop(p, num, n, r, calls) ==
    LET res == Run(p.parser, r, calls)
    IN  IF ~res.ok
        THEN IF num >= p.minimum THEN Outcome(n, r, TRUE) ELSE Failure
        ELSE AtLeastLoop(p, num + 1,
                         [n EXCEPT !.Children = Append(@, res.node)],
                         res.rest, calls)

AtLeastFn(p, in, calls) == AtLeastLoop(p, 0, Inner(p.outType, <<>>), in, calls)

\* OrLoop giving the next parser what the failed one returned as rest
RECURSIVE OrLoopFromRest(_, _, _, _)
OrLoopFromRest(p, i, in, calls) ==
    IF i > Len(p.parsers) THEN Failure
    ELSE LET res == Run(p.parsers[i], in, calls)
         IN IF res.ok THEN Outcome(res.node, res.rest, TRUE)
            ELSE OrLoopFromRest(p, i + 1, res.rest, calls)

\* Or's range loop, at parser i
OrLoop(p, i, in, calls) ==
    IF i > Len(p.parsers) THEN Failure
    ELSE LET res == Run(p.parsers[i], in, calls)
         IN IF res.ok THEN Outcome(res.node, res.rest, TRUE)
            ELSE OrLoop(p, i + 1, in, calls)

OrFn(p, in, calls) == OrLoop(p, 1, in, calls)

\* Then's range loop, at parser i
ThenLoop(p, i, n, r, calls) ==
    IF i > Len(p.parsers) THEN Outcome(n, r, TRUE)
    ELSE LET res == Run(p.parsers[i], r, calls)
         IN IF ~res.ok THEN Failure
            ELSE ThenLoop(p, i + 1,
                          [n EXCEPT !.Children = Append(@, res.node)],
                          res.rest, calls)

ThenFn(p, in, calls) == ThenLoop(p, 1, Inner(p.outType, <<>>), in, calls)

\* AfterSkip with the skip never applied
AfterSkipNothing(skip, r, calls) == r

\* the rest after the optional skip
AfterSkip(skip, r, calls) ==
    LET s == Run(skip, r, calls)
    IN IF s.ok THEN s.rest ELSE r

\* ThenSkipping's range loop, at parser i
ThenSkippingLoop(p, i, n, r, calls) ==
    IF i > Len(p.parsers) THEN Outcome(n, r, TRUE)
    ELSE LET res == Run(p.parsers[i], AfterSkip(p.skip, r, calls), calls)
         IN IF ~res.ok THEN Failure
            ELSE ThenSkippingLoop(p, i + 1,
                     [n EXCEPT !.Children = Append(@, res.node)],
                     res.rest, calls)

ThenSkippingFn(p, in, calls) ==
    ThenSkippingLoop(p, 1, Inner(p.outType, <<>>), in, calls)

SkippingFn(p, in, calls) ==
    Run(p.parser, AfterSkip(p.skip, in, calls), calls)

AsFn(p, in, calls) ==
    LET res == Run(p.parser, in, calls)
    IN Outcome(Inner(p.outType, <<res.node>>), res.rest, res.ok)

Run(p, in, calls) ==
    CASE p.kind = "Character" -> CharacterFn(p, in)
      [] p.kind = "Regex" -> RegexFn(p, in)
      [] p.kind = "Some" -> SomeFn(p, in, calls)
      [] p.kind = "AtLeast" -> AtLeastFn(p, in, calls)
      [] p.kind = "Or" -> OrFn(p, in, calls)
      [] p.kind = "Then" -> ThenFn(p, in, calls)
      [] p.kind = "ThenSkipping" -> ThenSkippingFn(p, in, calls)
      [] p.kind = "Skipping" -> SkippingFn(p, in, calls)
      [] p.kind = "As" -> AsFn(p, in, calls)
      [] p.kind = "Rule" -> calls[Len(in) + 1][p.name]

\* The grammar functions, each after those it calls on the text it was
\* given itself; every other call is on a shorter text.
RuleOrder ==
    <<"FunctionCall", "Unit", "Multiplication", "Sum", "Expression",
      "VariableDeclaration", "FunctionDeclaration", "Declaration",
      "MainUnit", "MainMultiplication", "MainSum", "MainExpression">>

\* the grammar functions the parser p calls itself
RECURSIVE Called(_)
Called(p) ==
    CASE p.kind = "Rule" -> {p.name}
      [] p.kind \in {"Some", "AtLeast", "As"} -> Called(p.parser)
      [] p.kind = "Skipping" -> Called(p.skip) \cup Called(p.parser)
      [] p.kind \in {"Or", "Then"} ->
            UNION { Called(p.parsers[i]) : i \in DOMAIN p.parsers }
      [] p.kind = "ThenSkipping" ->
            Called(p.skip) \cup UNION { Called(p.parsers[i]) : i \in DOMAIN p.parsers }
      [] OTHER -> {}

\* names, and the grammar functions called from them, directly or not
RECURSIVE Reachable(_)
Reachable(names) ==
    LET more == names \cup UNION { Called(RuleBody(name)) : name \in names }
    IN IF more = names THEN names ELSE Reachable(more)

\* the outcomes on the text in of the first i grammar functions of rules,
\* shorter holding the outcomes on the shorter suffixes
RECURSIVE Entered(_, _, _, _)
Entered(rules, i, in, shorter) ==
    IF i = 0 THEN <<>>
    ELSE LET before == Entered(rules, i - 1, in, shorter)
         IN before @@ (rules[i] :>
                Run(RuleBody(rules[i]), in, Append(shorter, before)))

\* the outcomes of the grammar functions of rules on the suffixes of in
RECURSIVE Calls(_, _)
Calls(rules, in) ==
    LET shorter == IF in = <<>> THEN <<>> ELSE Calls(rules, Tail(in))
    IN Append(shorter, Entered(rules, Len(rules), in, shorter))

\* parser p called on the text in
Parse(p, in) ==
    LET reached == Reachable(Called(p))
        IsReached(name) == name \in reached
    IN Run(p, in, Calls(SelectSeq(RuleOrder, IsReached), in))

(***************************************************************************)
(* float64.  A value is sign * n / d in lowest terms; d = 0 holds the      *)
(* infinities (n = 1) and NaN (n = 0); zero keeps its sign.  The operators *)
(* are IEEE 754's on these values; n / d is kept exact where float64 keeps *)
(* the nearest double, and no magnitude in the model reaches 2^53.         *)
(***************************************************************************)
RECURSIVE GCD(_, _)
GCD(a, b) == IF b = 0 THEN a ELSE GCD(b, a % b)

Float(s, n, d) == [s |-> s, n |-> n, d |-> d]
NaN == Float(1, 0, 0)
Inf(s) == Float(s, 1, 0)
Zero(s) == Float(s, 0, 1)
IsNaN(x) == x.n = 0 /\ x.d = 0
IsInf(x) == x.n = 1 /\ x.d = 0
IsZero(x) == x.n = 0 /\ x.d = 1

\* sign * n / d, d > 0, in lowest terms
Ratio(s, n, d) ==
    IF n = 0 THEN Zero(s)
    ELSE LET g == GCD(n, d) IN Float(s, n \div g, d \div g)

FNeg(x) == IF IsNaN(x) THEN NaN ELSE [x EXCEPT !.s = -x.s]

\* x + y
FAdd(x, y) ==
    CASE IsNaN(x) \/ IsNaN(y) -> NaN
      [] IsInf(x) /\ IsInf(y) -> IF x.s = y.s THEN x ELSE NaN
      [] IsInf(x) /\ ~IsInf(y) /\ ~IsNaN(y) -> x
      [] IsInf(y) /\ ~IsInf(x) /\ ~IsNaN(x) -> y
      [] OTHER ->
            LET num == x.s * x.n * y.d + y.s * y.n * x.d
            IN  IF num = 0
                THEN Zero(IF IsZero(x) /\ IsZero(y) /\ x.s = -1 /\ y.s = -1
                          THEN -1 ELSE 1)
                ELSE IF num < 0 THEN Ratio(-1, -num, x.d * y.d)
                ELSE Ratio(1, num, x.d * y.d)

\* x - y
FSub(x, y) == FAdd(x, FNeg(y))

\* x * y
FMul(x, y) ==
    CASE IsNaN(x) \/ IsNaN(y) -> NaN
      [] (IsInf(x) /\ IsZero(y)) \/ (IsZero(x) /\ IsInf(y)) -> NaN
      [] (IsInf(x) \/ IsInf(y)) /\ ~IsNaN(x) /\ ~IsNaN(y)
            /\ ~IsZero(x) /\ ~IsZero(y) -> Inf(x.s * y.s)
      [] OTHER -> Ratio(x.s * y.s, x.n * y.n, x.d * y.d)

\* x / y
FDiv(x, y) ==
    CASE IsNaN(x) \/ IsNaN(y) -> NaN
      [] IsInf(x) /\ IsInf(y) -> NaN
      [] IsZero(x) /\ IsZero(y) -> NaN
      [] IsInf(x) /\ ~IsInf(y) /\ ~IsNaN(y) -> Inf(x.s * y.s)
      [] IsInf(y) /\ ~IsInf(x) /\ ~IsNaN(x) -> Zero(x.s * y.s)
      [] IsZero(y) /\ ~IsZero(x) /\ ~IsNaN(x) /\ ~IsInf(x) -> Inf(x.s * y.s)
      [] OTHER -> Ratio(x.s * y.s, x.n * y.d, x.d * y.n)

DigitValue(c) ==
    CASE c = "0" -> 0 [] c = "1" -> 1 [] c = "2" -> 2 [] c = "3" -> 3
      [] c = "4" -> 4 [] c = "5" -> 5 [] c = "6" -> 6 [] c = "7" -> 7
      [] c = "8" -> 8 [] c = "9" -> 9

RECURSIVE DigitsValue(_)
DigitsValue(ds) ==
    IF ds = <<>> THEN 0
    ELSE 10 * DigitsValue(SubSeq(ds, 1, Len(ds) - 1)) + DigitValue(ds[Len(ds)])

\* strconv.ParseFloat on the text of a Number node
ParseFloat(value) ==
    IF value[1] = "-"
    THEN Float(-1, DigitsValue(Tail(value)), 1)
    ELSE Float(1, DigitsValue(value), 1)

(***************************************************************************)
(* Go maps.  A map value is a function from its keys; a variable map lives *)
(* in the heap (a sequence of maps, the address is the index) because Go   *)
(* maps are references: a write through one reference is seen through      *)
(* every other reference to the same map.                                  *)
(***************************************************************************)
EmptyMap == [k \in {} |-> NaN]

\* m[k], the zero value when k is missing
MapGet(m, k, zero) == IF k \in DOMAIN m THEN m[k] ELSE zero

\* m[k] = v
MapPut(m, k, v) == [x \in (DOMAIN m) \cup {k} |-> IF x = k THEN v ELSE m[x]]

\* the zero MemoryFunction: no parameters, a nil Expression
ZeroFunction == [Parameters |-> <<>>, Expression |-> Nil]

\* Memory{variables, functions}
Memory(variables, functions) == [Variables |-> variables, Functions |-> functions]

(***************************************************************************)
(* Eval.  An evaluation returns its number and the heap it leaves, or      *)
(* panics: a nil node is dereferenced, or the goroutine's stack is         *)
(* exhausted (calls nested deeper than MaxCallDepth).                      *)
(***************************************************************************)
MaxCallDepth == 3

Returned(v, h) == [val |-> v, heap |-> h, panic |-> FALSE]
Panicked(h) == [val |-> NaN, heap |-> h, panic |-> TRUE]

RECURSIVE Eval(_, _, _, _)
RECURSIVE SumLoop(_, _, _, _, _, _)
RECURSIVE MultiplicationLoop(_, _, _, _, _, _)
RECURSIVE ArgumentsLoop(_, _, _, _, _, _)
RECURSIVE CopyLoop(_, _, _, _)
RECURSIVE BindLoop(_, _, _, _)

\* SumStep with the operands of a subtraction exchanged
SumStepExchanged(number, op, operand) ==
    IF op.Type = "OpAdd" THEN FAdd(number, operand) ELSE FSub(operand, number)

\* number += operand or number -= operand, by the Term's operator node
SumStep(number, op, operand) ==
    IF op.Type = "OpAdd" THEN FAdd(number, operand) ELSE FSub(number, operand)

\* number *= operand or number /= operand, by the Term's operator node
MultiplicationStep(number, op, operand) ==
    IF op.Type = "OpMult" THEN FMul(number, operand) ELSE FDiv(number, operand)

\* the range loop of case "Sum", at Term i
SumLoop(terms, i, number, mem, h, depth) ==
    IF i > Len(terms) THEN Returned(number, h)
    ELSE LET sum == terms[i]
             r == Eval(sum.Children[2], mem, h, depth)
         IN IF r.panic THEN r
            ELSE SumLoop(terms, i + 1, SumStep(number, sum.Children[1], r.val),
                         mem, r.heap, depth)

EvalSum(n, mem, h, depth) ==
    LET first == Eval(n.Children[1], mem, h, depth)
    IN IF first.panic THEN first
       ELSE SumLoop(n.Children[2].Children, 1, first.val, mem, first.heap, depth)

\* the range loop of case "Multiplication", at Term i
MultiplicationLoop(terms, i, number, mem, h, depth) ==
    IF i > Len(terms) THEN Returned(number, h)
    ELSE LET mult == terms[i]
             r == Eval(mult.Children[2], mem, h, depth)
         IN IF r.panic THEN r
            ELSE MultiplicationLoop(terms, i + 1,
                     MultiplicationStep(number, mult.Children[1], r.val),
                     mem, r.heap, depth)

EvalMultiplication(n, mem, h, depth) ==
    LET first == Eval(n.Children[1], mem, h, depth)
    IN IF first.panic THEN first
       ELSE MultiplicationLoop(n.Children[2].Children, 1, first.val,
                               mem, first.heap, depth)

\* memory.Variables[node.Value]
EvalVariable(n, mem, h) == Returned(MapGet(h[mem.Variables], n.Value, Zero(1)), h)

\* the loop that evaluates the arguments, at Argument i; val is the list so far
ArgumentsLoop(args, i, arguments, mem, h, depth) ==
    IF i > Len(args) THEN Returned(arguments, h)
    ELSE LET r == Eval(args[i].Children[1], mem, h, depth)
         IN IF r.panic THEN r
            ELSE ArgumentsLoop(args, i + 1, Append(arguments, r.val),
                               mem, r.heap, depth)

\* the range loop copying the entries names of the map at from into the map at to
CopyLoop(names, from, to, h) ==
    IF names = {} THEN h
    ELSE LET name == CHOOSE x \in names : TRUE
         IN CopyLoop(names \ {name}, from, to,
                     [h EXCEPT ![to] = MapPut(@, name, h[from][name])])

\* variableCopy being the caller's own map
VariableCopyAliased(mem, h) == [addr |-> mem.Variables, heap |-> h]

\* variableCopy: make a new map (at a fresh address) and copy the caller's
\* entries into it
VariableCopy(mem, h) ==
    LET to == Len(h) + 1
    IN [addr |-> to,
        heap |-> CopyLoop(DOMAIN h[mem.Variables], mem.Variables, to,
                          Append(h, EmptyMap))]

\* BindLoop giving the arguments to the parameters from the last one back
RECURSIVE BindLoopBackwards(_, _, _, _)
BindLoopBackwards(function, arguments, i, st) ==
    IF i > Len(arguments) THEN st
    ELSE BindLoopBackwards(function, arguments, i + 1,
             IF i - 1 < Len(function.Parameters)
             THEN [st EXCEPT !.heap[st.addr] =
                       MapPut(@, function.Parameters[Len(function.Parameters) + 1 - i],
                              arguments[i])]
             ELSE st)

\* the loop overlaying the arguments on the map at address to, at argument i
BindLoop(function, arguments, i, st) ==
    IF i > Len(arguments) THEN st
    ELSE BindLoop(function, arguments, i + 1,
             IF i - 1 < Len(function.Parameters)
             THEN [st EXCEPT !.heap[st.addr] =
                       MapPut(@, function.Parameters[i], arguments[i])]
             ELSE st)

\* scopeMemory: the Memory the body of the called function is evaluated in
ScopeMemory(function, arguments, mem, h) ==
    LET st == BindLoop(function, arguments, 1, VariableCopy(mem, h))
    IN [memory |-> Memory(st.addr, mem.Functions), heap |-> st.heap]

EvalFunctionCall(n, mem, h, depth) ==
    LET function == MapGet(mem.Functions, n.Children[1].Value, ZeroFunction)
        args == ArgumentsLoop(n.Children[3].Children, 1, <<>>, mem, h, depth)
    IN  IF args.panic THEN Panicked(args.heap)
        ELSE LET scope == ScopeMemory(function, args.val, mem, args.heap)
             IN IF depth >= MaxCallDepth THEN Panicked(scope.heap)
                ELSE Eval(function.Expression, scope.memory, scope.heap, depth + 1)

Eval(n, mem, h, depth) ==
    CASE n = Nil -> Panicked(h)
      [] n.Type = "Expression" -> Eval(n.Children[1], mem, h, depth)
      [] n.Type = "Sum" -> EvalSum(n, mem, h, depth)
      [] n.Type = "Multiplication" -> EvalMultiplication(n, mem, h, depth)
      [] n.Type = "Unit" -> Eval(n.Children[2], mem, h, depth)
      [] n.Type = "Number" -> Returned(ParseFloat(n.Value), h)
      [] n.Type = "Variable" -> EvalVariable(n, mem, h)
      [] n.Type = "FunctionCall" -> EvalFunctionCall(n, mem, h, depth)
      [] OTHER -> Returned(Zero(1), h)

(***************************************************************************)
(* Exec: one line of the program per step                                  *)
(***************************************************************************)
Assignment(name, value) == [kind |-> "Assignment", name |-> name, value |-> value]
Value(value) == [kind |-> "Value", name |-> <<>>, value |-> value]

\* what handling a line leaves: the heap, the function map, what was printed
Handled(h, functions, out, panic) ==
    [heap |-> h, functions |-> functions, out |-> out, panic |-> panic]

\* the variable maps no reference reaches any more are gone
Collect(h) == SubSeq(h, 1, 1)

\* line := node.Children[0] of the Line at index i
LineOf(program, i) == program.Children[i].Children[1]

\* HandleVariableDeclaration without the store into memory.Variables
HandleVariableDeclarationUnstored(l, mem, h) ==
    LET name == l.Children[1].Value
        r == Eval(l.Children[3], mem, h, 0)
    IN IF r.panic THEN Handled(r.heap, mem.Functions, <<>>, TRUE)
       ELSE Handled(r.heap, mem.Functions, <<Assignment(name, r.val)>>, FALSE)

\* case "VariableDeclaration"
HandleVariableDeclaration(l, mem, h) ==
    LET name == l.Children[1].Value
        r == Eval(l.Children[3], mem, h, 0)
    IN IF r.panic THEN Handled(r.heap, mem.Functions, <<>>, TRUE)
       ELSE LET h2 == [r.heap EXCEPT ![mem.Variables] = MapPut(@, name, r.val)]
            IN Handled(h2, mem.Functions,
                   <<Assignment(name, MapGet(h2[mem.Variables], name, Zero(1)))>>,
                   FALSE)

\* case "Expression"
HandleExpression(l, mem, h) ==
    LET r == Eval(l, mem, h, 0)
    IN IF r.panic THEN Handled(r.heap, mem.Functions, <<>>, TRUE)
       ELSE Handled(r.heap, mem.Functions, <<Value(r.val)>>, FALSE)

\* the loop collecting the parameter names, at Parameter i
RECURSIVE ParametersLoop(_, _, _)
ParametersLoop(params, i, parameters) ==
    IF i > Len(params) THEN parameters
    ELSE ParametersLoop(params, i + 1,
                        Append(parameters, params[i].Children[1].Value))

\* HandleFunctionDeclaration without the store into memory.Functions
HandleFunctionDeclarationDropped(l, mem, h) ==
    Handled(h, mem.Functions, <<>>, FALSE)

\* case "FunctionDeclaration"
HandleFunctionDeclaration(l, mem, h) ==
    LET parameters == ParametersLoop(l.Children[3].Children, 1, <<>>)
    IN Handled(h,
           MapPut(mem.Functions, l.Children[1].Value,
                  [Parameters |-> parameters, Expression |-> l.Children[6]]),
           <<>>, FALSE)

\* the switch on line.Type
Handle(l, mem, h) ==
    CASE l.Type = "VariableDeclaration" -> HandleVariableDeclaration(l, mem, h)
      [] l.Type = "Expression" -> HandleExpression(l, mem, h)
      [] l.Type = "FunctionDeclaration" -> HandleFunctionDeclaration(l, mem, h)
      [] OTHER -> Handled(h, mem.Functions, <<>>, FALSE)

(***************************************************************************)
(* The texts the entry points are given                                    *)
(***************************************************************************)
MaxLines == 3
MaxOps == 2

\* the lines programs are made of
LinePool ==
    { <<"x", "=", "2">>,
      <<"y", "=", "x", "*", "3">>,
      <<"y">>,
      <<"f", "(", "x", ")", "=", "x", "*", "2">>,
      <<"f", "(", "a", ",", "b", ")", "=", "a", "+", "b", "*", "2">>,
      <<"f", "(", "y", ",", "x", ")">>,
      <<"f", "(", ")", "=", "g", "(", ")">>,
      <<"g", "(", ")", "=", "1">>,
      <<"f", "(", ")">> }

RECURSIVE Join(_)
Join(lines) ==
    IF Len(lines) = 1 THEN lines[1]
    ELSE lines[1] \o <<";">> \o Join(Tail(lines))

\* x=5;f(x)=x*2;f(9);x
ShadowProgram ==
    Join(<< <<"x", "=", "5">>, <<"f", "(", "x", ")", "=", "x", "*", "2">>,
            <<"f", "(", "9", ")">>, <<"x">> >>)

\* f(a,b)=a+b*2;f(1,2)
CallProgram ==
    Join(<< <<"f", "(", "a", ",", "b", ")", "=", "a", "+", "b", "*", "2">>,
            <<"f", "(", "1", ",", "2", ")">> >>)

\* f()=f();f();x=2
RecursiveProgram ==
    Join(<< <<"f", "(", ")", "=", "f", "(", ")">>, <<"f", "(", ")">>,
            <<"x", "=", "2">> >>)

\* every program of at most MaxLines lines of the pool, and the programs above
Programs ==
    { Join(ls) : ls \in UNION { [1..n -> LinePool] : n \in 1..MaxLines } }
        \cup {<<>>, ShadowProgram, CallProgram, RecursiveProgram}

ProgramTexts == { <<t, <<>>>> : t \in Programs }

Literals == { <<"2">>, <<"3">> }

\* The expressions with exactly n operators: ExprsU the units, ExprsT the
\* products, ExprsE the sums; TermOps and SumOps those with an operator
\* outside every parenthesis, the ones a unit puts in parentheses.
RECURSIVE ExprsE(_)
RECURSIVE ExprsT(_)
RECURSIVE ExprsU(_)
RECURSIVE TermOps(_)
RECURSIVE SumOps(_)
TermOps(n) ==
    UNION { { t \o <<op>> \o u :
                t \in ExprsT(i), op \in {"*", "/"}, u \in ExprsU(n - 1 - i) } :
            i \in 0..(n - 1) }

SumOps(n) ==
    TermOps(n) \cup
    UNION { { e \o <<op>> \o t :
                e \in ExprsE(i), op \in {"+", "-"}, t \in ExprsT(n - 1 - i) } :
            i \in 0..(n - 1) }

ExprsU(n) ==
    IF n = 0 THEN Literals
    ELSE { <<"(">> \o e \o <<")">> : e \in SumOps(n) }

ExprsT(n) == ExprsU(n) \cup TermOps(n)

ExprsE(n) == ExprsU(n) \cup SumOps(n)

Expressions == UNION { ExprsE(n) : n \in 0..MaxOps }

\* text that cannot continue an expression
Trailers ==
    { <<" ", "g", "a", "r", "b", "a", "g", "e">>,
      <<"+">>, <<")">>, <<" ", "*">>, <<" ", "2">> }

\* the expressions of the examples, each with the text that follows it
ExampleTexts ==
    { << <<"2", "+", "3", "*", "4">>, <<>> >>,
      << <<"(", "2", "+", "3", ")", "*", "4">>, <<>> >>,
      << <<"8", "-", "3", "-", "2">>, <<>> >>,
      << <<"8", "/", "4", "/", "2">>, <<>> >>,
      << <<"2", "*", "-", "3">>, <<>> >>,
      << <<"1", "2", "/", "0">>, <<>> >>,
      << <<"1">>, <<"+">> >>,
      << <<"1", "+", "2">>, <<" ", "g", "a", "r", "b", "a", "g", "e">> >>,
      << <<>>, <<>> >>,
      << <<>>, <<")">> >> }

\* the shorter expressions, each followed by trailing text
TrailedTexts == (UNION { ExprsE(n) : n \in 0..(MaxOps - 1) }) \X Trailers

\* an expression, alone or (the shorter ones) followed by trailing text
ExpressionTexts ==
    { <<e, <<>>>> : e \in Expressions } \cup TrailedTexts \cup ExampleTexts

\* the same for the Expression of the program grammar: the shorter ones
ProgramExpressionTexts ==
    { <<e, <<>>>> : e \in UNION { ExprsE(n) : n \in 0..(MaxOps - 1) } }
        \cup TrailedTexts \cup ExampleTexts

(***************************************************************************)
(* The programs: main of the program language (parse, then Exec line by    *)
(* line) and main of the expression-only grammar (parse, then Eval)        *)
(***************************************************************************)
\* main about to give the text in, made from the text b, to the entry point p
StartWith(b, in, p) ==
    /\ base = b
    /\ input = in
    /\ parser = p
    /\ pc = "start"
    /\ node = Nil
    /\ rest = <<>>
    /\ ok = FALSE
    /\ memory = Memory(1, EmptyMap)
    /\ heap = <<EmptyMap>>
    /\ line = 1
    /\ output = <<>>

Start(texts, p) == \E t \in texts : StartWith(t[1], t[1] \o t[2], p)

Init == Start(ProgramTexts, Program)

\* node, rest, ok := Program(input); Exec(node) starts with an empty Memory
ProgramMain ==
    /\ pc = "start"
    /\ parser = Program
    /\ \E r \in {Parse(Program, input)} :
          /\ node' = r.node
          /\ rest' = r.rest
          /\ ok' = r.ok
          /\ pc' = IF r.ok THEN "exec" ELSE "failed"
    /\ memory' = Memory(1, EmptyMap)
    /\ heap' = <<EmptyMap>>
    /\ line' = 1
    /\ UNCHANGED <<input, base, parser, output>>

\* one turn of Exec's loop, on a line of type VariableDeclaration
ExecVariableDeclaration ==
    /\ pc = "exec"
    /\ line <= Len(node.Children)
    /\ LineOf(node, line).Type = "VariableDeclaration"
    /\ \E r \in {Handle(LineOf(node, line), memory, heap)} :
          /\ heap' = Collect(r.heap)
          /\ output' = output \o r.out
          /\ pc' = IF r.panic THEN "panic" ELSE "exec"
          /\ line' = IF r.panic THEN line ELSE line + 1
    /\ UNCHANGED <<input, base, parser, node, rest, ok, memory>>

\* one turn of Exec's loop, on a line of type Expression
ExecExpression ==
    /\ pc = "exec"
    /\ line <= Len(node.Children)
    /\ LineOf(node, line).Type = "Expression"
    /\ \E r \in {Handle(LineOf(node, line), memory, heap)} :
          /\ heap' = Collect(r.heap)
          /\ output' = output \o r.out
          /\ pc' = IF r.panic THEN "panic" ELSE "exec"
          /\ line' = IF r.panic THEN line ELSE line + 1
    /\ UNCHANGED <<input, base, parser, node, rest, ok, memory>>

\* one turn of Exec's loop, on a line of type FunctionDeclaration
ExecFunctionDeclaration ==
    /\ pc = "exec"
    /\ line <= Len(node.Children)
    /\ LineOf(node, line).Type = "FunctionDeclaration"
    /\ \E r \in {Handle(LineOf(node, line), memory, heap)} :
          /\ memory' = [memory EXCEPT !.Functions = r.functions]
          /\ line' = line + 1
    /\ UNCHANGED <<input, base, parser, pc, node, rest, ok, heap, output>>

\* the loop is over: Exec and main return
ExecReturn ==
    /\ pc = "exec"
    /\ line > Len(node.Children)
    /\ pc' = "done"
    /\ UNCHANGED <<input, base, parser, node, rest, ok, memory, heap, line, output>>

Next ==
    \/ ProgramMain
    \/ ExecVariableDeclaration
    \/ ExecExpression
    \/ ExecFunctionDeclaration
    \/ ExecReturn

Spec == Init /\ [][Next]_vars

\* Eval of the expression-only grammar: it takes no Memory
MainEval(n) == Eval(n, Memory(1, EmptyMap), <<EmptyMap>>, 0)

\* Expression is that of the expression-only grammar or of the program grammar
InitExpr ==
    \/ Start(ExpressionTexts, MainExpression)
    \/ Start(ProgramExpressionTexts, Expression)

\* node, rest, ok := Expression(input)
ExpressionMain ==
    /\ pc = "start"
    /\ parser \in {MainExpression, Expression}
    /\ \E r \in {Parse(parser, input)} :
          /\ node' = r.node
          /\ rest' = r.rest
          /\ ok' = r.ok
          /\ pc' = IF r.ok THEN "eval" ELSE "failed"
    /\ UNCHANGED <<input, base, parser, memory, heap, line, output>>

\* if ok { ... fmt.Println(Eval(node)) }
EvalMain ==
    /\ pc = "eval"
    /\ \E r \in {MainEval(node)} :
          /\ output' = IF r.panic THEN output ELSE <<Value(r.val)>>
          /\ pc' = IF r.panic THEN "panic" ELSE "done"
    /\ UNCHANGED <<input, base, parser, node, rest, ok, memory, heap, line>>

NextExpr ==
    \/ ExpressionMain
    \/ EvalMain

SpecExpr == InitExpr /\ [][NextExpr]_vars

(***************************************************************************)
(* A parser applied to a text: the primitives and every combinator, alone  *)
(* and composed as the grammar composes them                               *)
(***************************************************************************)
MaxText == 3

TextChars == {"1", "+", " ", "(", "x"}

Texts == UNION { [1..n -> TextChars] : n \in 0..MaxText }

AppliedParsers ==
    << Character("("),
       Number,
       Variable,
       WS,
       Or(<<Character("+"), Number>>),
       Or(<<As("OpAdd", Character("+")), As("OpMinus", Character("-"))>>),
       Or(<<ThenSkipping("Term", WS, <<Number, Character("+")>>), Variable>>),
       Then("Pair", <<Number, Character("+"), Number>>),
       Then("Call", <<Variable, Character("("), Number>>),
       ThenSkipping("Term", WS, <<Character("+"), Number>>),
       Skipping(WS, Number),
       Skipping(WS, As("OpAdd", Character("+"))),
       Some("Ones", Character("1")),
       AtLeast("Ones", 1, Character("1")),
       AtLeast("Terms", 2, ThenSkipping("Term", WS, <<Character("+"), Number>>)),
       As("OpAdd", Character("+")),
       As("Expression", Rule("Sum")),
       Rule("Unit"),
       MainExpression,
       Program >>

InitApply ==
    /\ \E i \in DOMAIN AppliedParsers : parser = AppliedParsers[i]
    /\ input \in Texts
    /\ base = input
    /\ pc = "start"
    /\ node = Nil
    /\ rest = <<>>
    /\ ok = FALSE
    /\ memory = Memory(1, EmptyMap)
    /\ heap = <<EmptyMap>>
    /\ line = 1
    /\ output = <<>>

\* node, rest, ok := parser(input)
Apply ==
    /\ pc = "start"
    /\ \E r \in {Parse(parser, input)} :
          /\ node' = r.node
          /\ rest' = r.rest
          /\ ok' = r.ok
    /\ pc' = "applied"
    /\ UNCHANGED <<input, base, parser, memory, heap, line, output>>

NextApply == Apply

SpecApply == InitApply /\ [][NextApply]_vars

(***************************************************************************)
(* Whitespace typed into a text before it is read: one character accepted  *)
(* by the grammar's WS, put before a token of the text.  The tokens are    *)
(* the terminals of the parse: the leaves of the AST, in order.            *)
(***************************************************************************)
MaxTyped == 2

LeafTypes == {Char, Whitespace, "Number", "Variable", "ArgumentDelimeter"}

RECURSIVE Leaves(_)
RECURSIVE LeavesOf(_, _)
Leaves(n) ==
    IF n.Type \in LeafTypes THEN <<n>> ELSE LeavesOf(n.Children, 1)

LeavesOf(children, i) ==
    IF i > Len(children) THEN <<>>
    ELSE Leaves(children[i]) \o LeavesOf(children, i + 1)

\* the skip parser of the grammar whose entry point is p
SkipOf(p) == IF p = Program THEN WS ELSE MainWS

\* the offsets at which the leaves from i on begin in text, from offset off
RECURSIVE TokenOffsets(_, _, _, _, _)
TokenOffsets(skip, leaves, i, text, off) ==
    IF i > Len(leaves) THEN {}
    ELSE LET after == Parse(skip, Suffix(text, off + 1)).rest
             begin == Len(text) - Len(after)
         IN {begin} \cup
            TokenOffsets(skip, leaves, i + 1, text, begin + Len(leaves[i].Value))

TokenStarts(p, text) ==
    LET r == Parse(p, text)
    IN IF r.ok THEN TokenOffsets(SkipOf(p), Leaves(r.node), 1, text, 0) ELSE {}

\* the characters the skip parser consumes
Accepted(skip) == { c \in SpaceChars : Parse(skip, <<c>>).rest = <<>> }

\* x=2;x-1
WSProgram1 == <<"x", "=", "2", ";", "x", "-", "1">>
\* f(a,b)=b;f(1,(2))
WSProgram2 ==
    <<"f", "(", "a", ",", "b", ")", "=", "b", ";",
      "f", "(", "1", ",", "(", "2", ")", ")">>
\* 2-(3)
WSExpression1 == <<"2", "-", "(", "3", ")">>
\* 1+2
WSExpression2 == <<"1", "+", "2">>

\* 1 +   2
WSSpaced == <<"1", " ", "+", " ", " ", " ", "2">>

\* the texts as they are, and 1+2 with the whitespace of 1 +   2 typed in
InitWS ==
    \/ Start({<<WSProgram1, <<>>>>, <<WSProgram2, <<>>>>}, Program)
    \/ Start({<<WSExpression1, <<>>>>, <<WSExpression2, <<>>>>}, MainExpression)
    \/ StartWith(WSExpression2, WSSpaced, MainExpression)

TypeWhitespace ==
    /\ pc = "start"
    /\ Len(input) - Len(base) < MaxTyped
    /\ \E k \in TokenStarts(parser, input), c \in Accepted(SkipOf(parser)) :
          input' = SubSeq(input, 1, k) \o <<c>> \o Suffix(input, k + 1)
    /\ UNCHANGED <<base, parser, pc, node, rest, ok, memory, heap, line, output>>

NextWS ==
    \/ TypeWhitespace
    \/ Next
    \/ NextExpr

SpecWS == InitWS /\ [][NextWS]_vars

(***************************************************************************)
(* The usual value of an expression text without spaces: split at the      *)
(* last + or - outside every parenthesis that has a left operand, then at  *)
(* the last * or /, then open the parentheses, then read the literal.      *)
(***************************************************************************)
Operators == {"+", "-", "*", "/"}

\* the number of parentheses open before position i
RECURSIVE Nesting(_, _)
Nesting(text, i) ==
    IF i = 1 THEN 0
    ELSE Nesting(text, i - 1)
            + (CASE text[i - 1] = "(" -> 1 [] text[i - 1] = ")" -> -1 [] OTHER -> 0)

\* the last position of a binary operator of ops outside every parenthesis,
\* or 0
LastBinary(text, ops) ==
    LET at == { i \in 2..Len(text) :
                    /\ text[i] \in ops
                    /\ text[i - 1] \notin Operators \cup {"("}
                    /\ Nesting(text, i) = 0 }
    IN IF at = {} THEN 0 ELSE CHOOSE i \in at : \A j \in at : j <= i

RECURSIVE Usual(_)
Usual(text) ==
    LET s == LastBinary(text, {"+", "-"})
        m == LastBinary(text, {"*", "/"})
        k == IF s > 0 THEN s ELSE m
        left == Usual(SubSeq(text, 1, k - 1))
        right == Usual(Suffix(text, k + 1))
    IN  CASE k > 0 /\ text[k] = "+" -> FAdd(left, right)
          [] k > 0 /\ text[k] = "-" -> FSub(left, right)
          [] k > 0 /\ text[k] = "*" -> FMul(left, right)
          [] k > 0 /\ text[k] = "/" -> FDiv(left, right)
          [] k = 0 /\ text[1] = "(" -> Usual(SubSeq(text, 2, Len(text) - 1))
          [] OTHER -> ParseFloat(text)

\* the float64 of the integer i
FromInt(i) == IF i < 0 THEN Float(-1, -i, 1) ELSE Float(1, i, 1)

\* C1: an expression of integer literals, + - * / and parentheses, parsed
\* with Expression (of either grammar) and evaluated with Eval, is parsed whole and gives its
\* usual value: * and / bind tighter than + and -, parentheses override,
\* operators of one level fold left to right; 2+3*4 gives 14, (2+3)*4
\* gives 20, 8-3-2 gives 3 and 8/4/2 gives 1.
C1_UsualValue ==
    /\ (input = base /\ base # <<>> /\ pc # "start") => (ok /\ rest = <<>>)
    /\ (input = base /\ base # <<>>) => pc \notin {"failed", "panic"}
    /\ (input = base /\ pc = "done") => output = <<Value(Usual(base))>>
    /\ (input = <<"2", "+", "3", "*", "4">> /\ pc = "done")
            => output = <<Value(FromInt(14))>>
    /\ (input = <<"(", "2", "+", "3", ")", "*", "4">> /\ pc = "done")
            => output = <<Value(FromInt(20))>>
    /\ (input = <<"8", "-", "3", "-", "2">> /\ pc = "done")
            => output = <<Value(FromInt(3))>>
    /\ (input = <<"8", "/", "4", "/", "2">> /\ pc = "done")
            => output = <<Value(FromInt(1))>>

\* 8-3-2 was parsed and evaluated to 3
C1_Witness ==
    /\ pc = "done"
    /\ input = <<"8", "-", "3", "-", "2">>
    /\ output = <<Value(FromInt(3))>>

(***************************************************************************)
(* What the lines before the next one must have left, told from the AST    *)
(* and from what was reported                                              *)
(***************************************************************************)
\* the kind and name of the results the first k lines report, in line order
RECURSIVE ExpectedEvents(_, _)
ExpectedEvents(program, k) ==
    IF k = 0 THEN <<>>
    ELSE LET l == LineOf(program, k)
             before == ExpectedEvents(program, k - 1)
         IN CASE l.Type = "VariableDeclaration" ->
                    Append(before, [kind |-> "Assignment", name |-> l.Children[1].Value])
              [] l.Type = "Expression" ->
                    Append(before, [kind |-> "Value", name |-> <<>>])
              [] OTHER -> before

\* the lines among the first k that report a result, in line order
RECURSIVE EventLines(_, _)
EventLines(program, k) ==
    IF k = 0 THEN <<>>
    ELSE IF LineOf(program, k).Type \in {"VariableDeclaration", "Expression"}
         THEN Append(EventLines(program, k - 1), k)
         ELSE EventLines(program, k - 1)

EventShape(out) == [i \in DOMAIN out |-> [kind |-> out[i].kind, name |-> out[i].name]]

\* the variables after the first k results: each name assigned so far, with
\* the value of its last assignment
EnvAfter(out, k) ==
    LET assigned == { i \in 1..k : out[i].kind = "Assignment" }
    IN [ x \in { out[i].name : i \in assigned } |->
            out[CHOOSE i \in assigned :
                    /\ out[i].name = x
                    /\ \A j \in assigned : out[j].name = x => j <= i].value ]

\* the functions the first k lines declare, a later declaration of a name
\* replacing an earlier one
FunctionsAfter(program, k) ==
    LET declared == { j \in 1..k : LineOf(program, j).Type = "FunctionDeclaration" }
        last(f) == CHOOSE j \in declared :
                      /\ LineOf(program, j).Children[1].Value = f
                      /\ \A i \in declared :
                            LineOf(program, i).Children[1].Value = f => i <= j
    IN [ f \in { LineOf(program, j).Children[1].Value : j \in declared } |->
            LET l == LineOf(program, last(f))
            IN [Parameters |-> [ i \in DOMAIN l.Children[3].Children |->
                                    l.Children[3].Children[i].Children[1].Value ],
                Expression |-> l.Children[6]] ]

\* the value result i must carry: that of its line's expression in the
\* variables and functions the earlier lines left
ExpectedValue(program, out, i, k) ==
    LET j == EventLines(program, k)[i]
        l == LineOf(program, j)
        e == IF l.Type = "VariableDeclaration" THEN l.Children[3] ELSE l
    IN Eval(e, Memory(1, FunctionsAfter(program, j - 1)), <<EnvAfter(out, i - 1)>>, 0).val

\* x=2;y=x*3;y
PersistProgram ==
    <<"x", "=", "2", ";", "y", "=", "x", "*", "3", ";", "y">>

PersistOutput ==
    <<Assignment(<<"x">>, FromInt(2)), Assignment(<<"y">>, FromInt(6)),
      Value(FromInt(6))>>

\* C2: Exec handles the lines in source order against one environment: a
\* variable declaration reports Assignment(name, value), an expression
\* Value(result), a function declaration nothing; each value is that of the
\* line's expression in the environment all earlier lines left, and a
\* declaration stores under its name (replacing an earlier value).
\* x=2;y=x*3;y reports exactly [Assignment(x,2), Assignment(y,6), Value(6)].
C2_LineOrder ==
    /\ pc \in {"exec", "done", "panic"} =>
          /\ EventShape(output) = ExpectedEvents(node, line - 1)
          /\ \A i \in DOMAIN output :
                output[i].value = ExpectedValue(node, output, i, line - 1)
          /\ heap[memory.Variables] = EnvAfter(output, Len(output))
          /\ memory.Functions = FunctionsAfter(node, line - 1)
    /\ (input = PersistProgram /\ pc = "done") => output = PersistOutput
    /\ input = PersistProgram => pc # "panic"

\* x=2;y=x*3;y was executed to its end and reported the three results
C2_Witness ==
    /\ input = PersistProgram
    /\ pc = "done"
    /\ line = 4
    /\ output = PersistOutput

(***************************************************************************)
(* Function calls                                                          *)
(***************************************************************************)
\* the line is a call f(e1..en) and nothing else
IsCallLine(l) == l.Type = "Expression" /\ l.Children[1].Type = "FunctionCall"

\* the node has a function call in it
RECURSIVE ContainsCall(_)
ContainsCall(n) ==
    \/ n.Type = "FunctionCall"
    \/ \E i \in DOMAIN n.Children : ContainsCall(n.Children[i])

\* env overlaid with parameter i = argument i for every i both lists have
Overlay(env, parameters, arguments) ==
    LET bound == { i \in DOMAIN parameters : i <= Len(arguments) }
    IN [ x \in DOMAIN env \cup { parameters[i] : i \in bound } |->
            IF \E i \in bound : parameters[i] = x
            THEN arguments[CHOOSE i \in bound :
                              /\ parameters[i] = x
                              /\ \A j \in bound : parameters[j] = x => j <= i]
            ELSE env[x] ]

\* what the call line l must give: the body of the called function in the
\* caller's variables overlaid with the arguments, each argument having its
\* value in the caller's variables
CallOutcome(l, mem, h) ==
    LET call == l.Children[1]
        function == mem.Functions[call.Children[1].Value]
        args == call.Children[3].Children
        arguments == [ i \in DOMAIN args |-> Eval(args[i].Children[1], mem, h, 0).val ]
    IN Eval(function.Expression, Memory(1, mem.Functions),
            <<Overlay(h[mem.Variables], function.Parameters, arguments)>>, 1)

C3_Step ==
    (/\ pc = "exec"
     /\ line <= Len(node.Children)
     /\ IsCallLine(LineOf(node, line))
     /\ LineOf(node, line).Children[1].Children[1].Value \in DOMAIN memory.Functions)
    => LET expected == CallOutcome(LineOf(node, line), memory, heap)
       IN IF expected.panic
          THEN pc' = "panic" /\ output' = output
          ELSE pc' = "exec" /\ output' = Append(output, Value(expected.val))

\* C3: a call f(e1..en) of a function declared with parameters p1..pm gives
\* the value of the body in the caller's whole variable mapping overlaid
\* with pi = value of ei (in the caller's environment) for i up to
\* min(n, m): further arguments are ignored, a parameter without argument
\* keeps the caller's value of that name.  f(a,b)=a+b*2;f(1,2) reports
\* exactly [Value(5)].
C3_CallBinding ==
    /\ [][C3_Step]_vars
    /\ []((input = CallProgram /\ pc = "done") => output = <<Value(FromInt(5))>>)
    /\ [](input = CallProgram => pc # "panic")

\* f(a,b)=a+b*2;f(1,2) was executed and reported 5
C3_Witness ==
    /\ input = CallProgram
    /\ pc = "done"
    /\ output = <<Value(FromInt(5))>>

C4_Step ==
    (/\ pc = "exec"
     /\ line <= Len(node.Children)
     /\ LineOf(node, line).Type \in {"Expression", "VariableDeclaration"}
     /\ ContainsCall(LineOf(node, line)))
    => LET l == LineOf(node, line)
           stored == IF l.Type = "VariableDeclaration" /\ pc' = "exec"
                     THEN {l.Children[1].Value} ELSE {}
       IN /\ DOMAIN heap'[memory'.Variables] = DOMAIN heap[memory.Variables] \cup stored
          /\ \A x \in DOMAIN heap[memory.Variables] \ stored :
                heap'[memory'.Variables][x] = heap[memory.Variables][x]

ShadowOutput ==
    <<Assignment(<<"x">>, FromInt(5)), Value(FromInt(18)), Value(FromInt(5))>>

\* C4: evaluating a function call never changes the caller's variable
\* mapping, also when a parameter has the name of a caller variable: after
\* a line with a call, every variable has the value it had before.  With
\* x=5 and f(x)=x*2, f(9) gives 18 and x is still 5 on the next line.
C4_CallerUnchanged ==
    /\ [][C4_Step]_vars
    /\ []((input = ShadowProgram /\ pc = "done") => output = ShadowOutput)
    /\ [](input = ShadowProgram => pc # "panic")

\* x=5;f(x)=x*2;f(9);x was executed: the call gave 18, x is 5 after it
C4_Witness ==
    /\ input = ShadowProgram
    /\ pc = "done"
    /\ output = ShadowOutput
    /\ heap[memory.Variables][<<"x">>] = FromInt(5)

\* f()=g();g()=1;f()
ForwardProgram ==
    <<"f", "(", ")", "=", "g", "(", ")", ";",
      "g", "(", ")", "=", "1", ";", "f", "(", ")">>

\* f()=g();f();g()=1
EarlyProgram ==
    <<"f", "(", ")", "=", "g", "(", ")", ";",
      "f", "(", ")", ";", "g", "(", ")", "=", "1">>

\* C5 as stated: executing f()=g();g()=1;f(), the call of f() on the third
\* line fails with UndefinedFunction("g"): it reports no value and the
\* program does not come to a normal end.
C5_ForwardFails ==
    input = ForwardProgram => (output = <<>> /\ pc # "done")

\* C5: executing f()=g();g()=1;f(), g is in the function mapping when the
\* third line calls f, and the program reports exactly [Value(1)]; the
\* lookup of g finds nothing only when f is called before the line that
\* declares g was executed, as in f()=g();f();g()=1, where the second line
\* stops the program with no result.
C5_DeclaredBeforeCall ==
    /\ input = ForwardProgram => pc \notin {"panic", "failed"}
    /\ (input = ForwardProgram /\ pc = "exec" /\ line = 3)
            => <<"g">> \in DOMAIN memory.Functions
    /\ (input = ForwardProgram /\ pc = "done") => output = <<Value(FromInt(1))>>
    /\ input = EarlyProgram => (pc # "done" /\ output = <<>> /\ line <= 2)

\* f()=g();g()=1;f() was executed to its end and reported 1
C5_Witness ==
    /\ input = ForwardProgram
    /\ pc = "done"
    /\ output = <<Value(FromInt(1))>>

(***************************************************************************)
(* Remainders and failures                                                 *)
(***************************************************************************)
\* 1+
OperandMissing == <<"1", "+">>

\* the AST of the text 1: of Expression, and of Program
OneExpression == Inner("Expression", <<Leaf("Number", <<"1">>)>>)
OneProgram ==
    Inner("Lines", <<Inner("Line", <<OneExpression, Leaf(Whitespace, <<>>)>>)>>)

\* C6 as stated: parse("1+") yields success=false, with the Expression
\* entry point and with the Program entry point.
C6_MalformedFails ==
    (pc = "applied" /\ input = OperandMissing /\ parser \in {MainExpression, Program})
        => ~ok

\* C6: parse("1+") yields success=true with remainder "+" and the AST of
\* "1", with the Expression entry point and with the Program entry point;
\* Program fails on no text, and Expression fails when no prefix of the
\* text is an expression, as on "+".
C6_OperandParsed ==
    /\ (pc = "applied" /\ input = OperandMissing /\ parser = MainExpression)
            => (ok /\ rest = <<"+">> /\ node = OneExpression)
    /\ (pc = "applied" /\ input = OperandMissing /\ parser = Program)
            => (ok /\ rest = <<"+">> /\ node = OneProgram)
    /\ (pc = "applied" /\ parser = Program) => ok
    /\ (pc = "applied" /\ input = <<"+">> /\ parser = MainExpression) => ~ok

\* Expression was applied to 1+ and returned success with the remainder +
C6_Witness ==
    /\ pc = "applied"
    /\ input = OperandMissing
    /\ parser = MainExpression
    /\ ok
    /\ rest = <<"+">>

\* 1+2 garbage
GarbageText == <<"1", "+", "2", " ", "g", "a", "r", "b", "a", "g", "e">>

\* C7: a successful parse returns as remainder exactly the suffix of the
\* input the outermost rule did not consume, and text after an expression
\* that cannot continue it is no failure: the expression is parsed as it
\* is alone and the trailing text is the remainder; parse("1+2 garbage")
\* yields success=true and remainder " garbage".
C7_Remainder ==
    /\ (pc # "start" /\ ok) => rest = Suffix(input, Len(input) - Len(rest) + 1)
    /\ (pc # "start" /\ base # <<>>) => (ok /\ rest = Suffix(input, Len(base) + 1))
    /\ (pc # "start" /\ base # <<>> /\ input # base) =>
          node = Parse(parser, base).node
    /\ (pc # "start" /\ input = GarbageText) =>
          /\ ok
          /\ rest = <<" ", "g", "a", "r", "b", "a", "g", "e">>
          /\ node = Parse(parser, <<"1", "+", "2">>).node

\* 1+2 garbage was parsed with the expression-only grammar: success, the
\* remainder is " garbage"
C7_Witness ==
    /\ pc = "eval"
    /\ parser = MainExpression
    /\ input = GarbageText
    /\ ok
    /\ rest = <<" ", "g", "a", "r", "b", "a", "g", "e">>

\* the node a parser returns when it fails: nil, but As returns its own
\* node around the node the parser in it returned
RECURSIVE FailNode(_)
FailNode(p) ==
    CASE p.kind = "As" -> Inner(p.outType, <<FailNode(p.parser)>>)
      [] p.kind = "Skipping" -> FailNode(p.parser)
      [] p.kind = "Rule" -> FailNode(RuleBody(p.name))
      [] OTHER -> Nil

\* the parsers of an Or that succeed on the text
Succeeding(p, text) == { i \in DOMAIN p.parsers : Parse(p.parsers[i], text).ok }

RECURSIVE ExecFrom(_, _, _, _, _)
ExecFrom(program, i, mem, h, out) ==
    IF i > Len(program.Children) THEN [output |-> out, pc |-> "done"]
    ELSE LET r == Handle(LineOf(program, i), mem, h)
         IN IF r.panic THEN [output |-> out \o r.out, pc |-> "panic"]
            ELSE ExecFrom(program, i + 1, [mem EXCEPT !.Functions = r.functions],
                          Collect(r.heap), out \o r.out)

\* what main reports of a text, with the entry point p
Reported(p, text) ==
    LET r == Parse(p, text)
    IN  IF ~r.ok THEN [ok |-> FALSE, output |-> <<>>, pc |-> "failed"]
        ELSE IF p = Program
        THEN LET e == ExecFrom(r.node, 1, Memory(1, EmptyMap), <<EmptyMap>>, <<>>)
             IN [ok |-> TRUE, output |-> e.output, pc |-> e.pc]
        ELSE LET e == MainEval(r.node)
             IN [ok |-> TRUE,
                 output |-> IF e.panic THEN <<>> ELSE <<Value(e.val)>>,
                 pc |-> IF e.panic THEN "panic" ELSE "done"]

\* C8: whitespace accepted by WS, typed before any token of a text (a
\* number, a name, an operator, a parenthesis, '=', an argument delimiter
\* or a line delimiter), changes neither the success of the parse nor what
\* Exec / Eval report: the text with the whitespace gives what the text
\* without it gives; "1 +   2" gives the value of "1+2".
C8_WhitespaceTransparent ==
    /\ pc # "start" => ok = Parse(parser, base).ok
    /\ pc \in {"done", "panic", "failed"} =>
          [ok |-> ok, output |-> output, pc |-> pc] = Reported(parser, base)
    /\ (input = WSSpaced /\ pc = "done") => output = <<Value(FromInt(3))>>

\* whitespace was typed into a program, before its line delimiter among
\* others, and the program reported what it reports without it
C8_Witness ==
    /\ pc = "done"
    /\ base = WSProgram1
    /\ Len(input) = Len(base) + MaxTyped
    /\ input[4] = " "
    /\ input[5] = ";"
    /\ output = <<Assignment(<<"x">>, FromInt(2)), Value(FromInt(1))>>

(***************************************************************************)
(* Lines that look up what is not defined                                  *)
(***************************************************************************)
\* the line is a variable and nothing else
IsVariableLine(l) == l.Type = "Expression" /\ l.Children[1].Type = "Variable"

\* f();x=2
UndefinedCallProgram == <<"f", "(", ")", ";", "x", "=", "2">>

\* C10 as stated: every line is a unit of failure of its own: a line that
\* looks up an undefined variable or calls an undefined function reports
\* an error and no number, and every later line is still executed.
C10_LinesIndependent ==
    /\ pc \in {"exec", "done", "panic"} =>
          \A i \in DOMAIN output :
              LET l == LineOf(node, EventLines(node, line - 1)[i])
              IN IsVariableLine(l) =>
                    l.Children[1].Value \in DOMAIN EnvAfter(output, i - 1)
    /\ pc # "panic"

\* f();x=2 stopped on its first line: nothing reported, x=2 never executed
C10_Witness ==
    /\ input = UndefinedCallProgram
    /\ pc = "panic"
    /\ line = 1
    /\ output = <<>>
    /\ heap[memory.Variables] = EmptyMap

(***************************************************************************)
(* Termination: an entry point applied to a text                           *)
(***************************************************************************)
\* the texts: short ones of any characters, short programs, short
\* expressions, and the examples
ParsedTexts ==
    Texts
        \cup { Join(ls) : ls \in UNION { [1..n -> LinePool] : n \in 1..(MaxLines - 1) } }
        \cup {ShadowProgram, CallProgram, RecursiveProgram, WSProgram2, WSSpaced}
        \cup UNION { ExprsE(n) : n \in 0..(MaxOps - 1) }
        \cup { t[1] \o t[2] : t \in ExampleTexts }

InitParse ==
    \E t \in ParsedTexts :
        \/ StartWith(t, t, Program)
        \/ StartWith(t, t, MainExpression)

SpecParse == InitParse /\ [][NextApply]_vars

\* the Some and AtLeast parsers in the parser p
RECURSIVE Repetitions(_)
Repetitions(p) ==
    (IF p.kind \in {"Some", "AtLeast"} THEN {p} ELSE {})
    \cup
    CASE p.kind \in {"Some", "AtLeast", "As"} -> Repetitions(p.parser)
      [] p.kind = "Skipping" -> Repetitions(p.skip) \cup Repetitions(p.parser)
      [] p.kind \in {"Or", "Then"} ->
            UNION { Repetitions(p.parsers[i]) : i \in DOMAIN p.parsers }
      [] p.kind = "ThenSkipping" ->
            Repetitions(p.skip)
                \cup UNION { Repetitions(p.parsers[i]) : i \in DOMAIN p.parsers }
      [] OTHER -> {}

\* the Some and AtLeast parsers of the grammar the entry point p belongs to
GrammarRepetitions(p) ==
    Repetitions(p)
        \cup UNION { Repetitions(RuleBody(name)) : name \in Reachable(Called(p)) }

\* The grammar functions the parser p, applied to the text in, calls on a
\* text as long as at (the text p's caller was given): those it calls before
\* anything was consumed.
RECURSIVE CallsAt(_, _, _, _)
RECURSIVE CallsAtEach(_, _, _, _, _)
CallsAt(p, in, at, calls) ==
    IF Len(in) < at THEN {}
    ELSE CASE p.kind = "Rule" -> {p.name}
           [] p.kind \in {"Some", "AtLeast", "As"} -> CallsAt(p.parser, in, at, calls)
           [] p.kind = "Skipping" ->
                 CallsAt(p.skip, in, at, calls)
                     \cup CallsAt(p.parser, AfterSkip(p.skip, in, calls), at, calls)
           [] p.kind = "Or" ->
                 UNION { CallsAt(p.parsers[i], in, at, calls) :
                           i \in { i \in DOMAIN p.parsers :
                                      \A j \in 1..(i - 1) :
                                          ~Run(p.parsers[j], in, calls).ok } }
           [] p.kind \in {"Then", "ThenSkipping"} -> CallsAtEach(p, 1, in, at, calls)
           [] OTHER -> {}

\* the same for the parsers of a Then or ThenSkipping from parser i on
CallsAtEach(p, i, r, at, calls) ==
    IF i > Len(p.parsers) \/ Len(r) < at THEN {}
    ELSE LET from == IF p.kind = "ThenSkipping" THEN AfterSkip(p.skip, r, calls) ELSE r
             res == Run(p.parsers[i], from, calls)
         IN (IF p.kind = "ThenSkipping" THEN CallsAt(p.skip, r, at, calls) ELSE {})
            \cup CallsAt(p.parsers[i], from, at, calls)
            \cup (IF res.ok THEN CallsAtEach(p, i + 1, res.rest, at, calls) ELSE {})

\* the layers of the grammar, a higher one calling only lower ones before
\* it consumed anything
Layer(name) ==
    CASE name \in {"FunctionCall"} -> 1
      [] name \in {"Unit", "MainUnit"} -> 2
      [] name \in {"Multiplication", "MainMultiplication"} -> 3
      [] name \in {"Sum", "MainSum"} -> 4
      [] name \in {"Expression", "MainExpression"} -> 5
      [] name \in {"VariableDeclaration", "FunctionDeclaration"} -> 6
      [] name = "Declaration" -> 7

\* every successful application of the element parser of a repetition of
\* the grammar, on any suffix of the text, consumes a character
ElementsConsume(p, text, calls) ==
    \A k \in 1..(Len(text) + 1) :
        \A repetition \in GrammarRepetitions(p) :
            LET r == Run(repetition.parser, Suffix(text, k), calls)
            IN r.ok => Len(r.rest) < Len(Suffix(text, k))

\* every grammar function, on any suffix of the text, calls before it has
\* consumed anything only grammar functions of a lower layer
LayersDescend(p, text, calls) ==
    \A k \in 1..(Len(text) + 1) :
        \A name \in Reachable(Called(p)) :
            \A callee \in CallsAt(RuleBody(name), Suffix(text, k),
                                  Len(text) + 1 - k, calls) :
                Layer(callee) < Layer(name)

ParseProgresses ==
    LET IsReached(name) == name \in Reachable(Called(parser))
        calls == Calls(SelectSeq(RuleOrder, IsReached), input)
    IN /\ ElementsConsume(parser, input, calls)
       /\ LayersDescend(parser, input, calls)

\* the numbers of elements of the repetitions in the AST n
RECURSIVE RepetitionLengths(_)
RepetitionLengths(n) ==
    (IF n.Type \in {"Lines", "Parameters", "Arguments", "Terms"}
     THEN {Len(n.Children)} ELSE {})
    \cup UNION { RepetitionLengths(n.Children[i]) : i \in DOMAIN n.Children }

\* C11: parsing terminates on every finite input: every successful
\* application of the element parser of a repetition (Line, Parameter,
\* Argument, Term) consumes at least one character, and every use of
\* Expression, as of every grammar function, happens after a character was
\* consumed or from a strictly higher layer, so that no loop and no
\* recursion repeats at one input position; the entry point returns, a
\* suffix of the text as remainder, no repetition having more elements
\* than characters were consumed.
C11_Terminates ==
    /\ ParseProgresses
    /\ (pc = "applied" /\ ok) =>
          /\ rest = Suffix(input, Len(input) - Len(rest) + 1)
          /\ \A n \in RepetitionLengths(node) : n <= Len(input) - Len(rest)

\* f(a,b)=a+b*2;f(1,2), with two lines, two parameters, two arguments and
\* terms of a sum and of a product, was parsed to its end
C11_Witness ==
    /\ pc = "applied"
    /\ parser = Program
    /\ input = CallProgram
    /\ ok
    /\ rest = <<>>
    /\ Len(node.Children) = 2
    /\ Len(node.Children[1].Children[1].Children[3].Children) = 2
    /\ Len(node.Children[2].Children[1].Children[1].Children[3].Children) = 2

====
